---- MODULE Spec2Model ----
(***************************************************************************)
(* Model of the service worker public/sw.js: the install / activate /      *)
(* fetch / sync listeners, the request classification of the fetch         *)
(* listener, and the two strategies cacheFirst and networkFirst working on *)
(* the browser's CacheStorage (an ordered list of named caches).           *)
(***************************************************************************)
EXTENDS Integers, Sequences, FiniteSets, TLC

(* ------------------------------ bounds --------------------------------- *)

\* the fetch events dispatched to the worker in one behaviour; their
\* handlers run interleaved
EventIds == {1, 2}
\* number of distinct payload versions the network can serve
MaxBody == 2
\* number of caches left in CacheStorage by earlier worker versions
MaxPreexisting == 1

(* --------------------------- program constants ------------------------- *)

CACHE_NAME == "ggcasecatalogs-v1"
STATIC_CACHE == "static-v1"
DYNAMIC_CACHE == "dynamic-v1"

\* a cache name of an earlier deployment (not one of the three above)
StaleName == "old-v0"

StoreNames == {CACHE_NAME, STATIC_CACHE, DYNAMIC_CACHE, StaleName}

\* self.location.origin and a foreign origin
SelfOrigin == "https://shop.example"
OtherOrigin == "https://cdn.example"

(* ------------------------------- URLs ---------------------------------- *)
(* A URL is what `new URL(request.url)` yields: protocol and pathname are  *)
(* kept as sequences of characters, because the code tests them with       *)
(* startsWith and with unanchored regular expressions; params is the set   *)
(* of names in url.searchParams.  href is the key under which a cache      *)
(* stores the response (same-origin hrefs are written without the origin). *)

Https == <<"h", "t", "t", "p", "s", ":">>
ChromeExt == <<"c", "h", "r", "o", "m", "e", "-", "e", "x", "t", ":">>

PathRoot == <<"/">>
PathManifest == <<"/", "m", "a", "n", "i", "f", "e", "s", "t", ".", "j", "s", "o", "n">>
PathFavicon == <<"/", "f", "a", "v", "i", "c", "o", "n", ".", "i", "c", "o">>
PathApp == <<"/", "a", "p", "p", ".", "j", "s">>
PathLib == <<"/", "l", "i", "b", ".", "j", "s">>
PathProducts == <<"/", "a", "p", "i", "/", "p", "r", "o", "d", "u", "c", "t", "s">>
PathBrandLogo == <<"/", "a", "p", "i", "/", "b", "r", "a", "n", "d", "s", "/", "1", ".", "p", "n", "g">>

MkURL(h, pr, o, p, q) ==
    [href |-> h, protocol |-> pr, origin |-> o, pathname |-> p, params |-> q]

URLS ==
    { MkURL("/", Https, SelfOrigin, PathRoot, {}),
      MkURL("/manifest.json", Https, SelfOrigin, PathManifest, {}),
      MkURL("/favicon.ico", Https, SelfOrigin, PathFavicon, {}),
      MkURL("/app.js", Https, SelfOrigin, PathApp, {}),
      MkURL("/app.js?_t=1", Https, SelfOrigin, PathApp, {"_t"}),
      MkURL("/?timestamp=1", Https, SelfOrigin, PathRoot, {"timestamp"}),
      MkURL("/api/products", Https, SelfOrigin, PathProducts, {}),
      MkURL("/api/products?nocache=1", Https, SelfOrigin, PathProducts, {"nocache"}),
      MkURL("https://cdn.example/lib.js", Https, OtherOrigin, PathLib, {}),
      MkURL("https://cdn.example/api/brands/1.png", Https, OtherOrigin, PathBrandLogo, {}),
      MkURL("chrome-extension://ext/app.js", ChromeExt, "chrome-extension://ext", PathApp, {}) }

Hrefs == {u.href : u \in URLS}

\* new URL(request.url)
ParseURL(href) == CHOOSE u \in URLS : u.href = href

\* Assets to cache immediately
STATIC_ASSETS == <<"/", "/manifest.json", "/favicon.ico">>

\* the literal texts of the three API regular expressions
API_CACHE_PATTERNS ==
    << <<"/", "a", "p", "i", "/", "p", "r", "o", "d", "u", "c", "t", "s">>,
       <<"/", "a", "p", "i", "/", "b", "r", "a", "n", "d", "s">>,
       <<"/", "a", "p", "i", "/", "c", "a", "t", "e", "g", "o", "r", "i", "e", "s">> >>

\* String.prototype.startsWith
StartsWith(s, prefix) ==
    /\ Len(s) >= Len(prefix)
    /\ SubSeq(s, 1, Len(prefix)) = prefix

\* RegExp.prototype.test for a pattern of literal characters (unanchored)
RegexTest(pattern, s) ==
    \E i \in 1..Len(s) :
        /\ i + Len(pattern) - 1 <= Len(s)
        /\ SubSeq(s, i, i + Len(pattern) - 1) = pattern

HttpPrefix == <<"h", "t", "t", "p">>

\* API_CACHE_PATTERNS.some(pattern => pattern.test(url.pathname))
isApiRequest(url) ==
    \E k \in 1..Len(API_CACHE_PATTERNS) : RegexTest(API_CACHE_PATTERNS[k], url.pathname)

(* ------------------------------ requests ------------------------------- *)

MkReq(h, m, d) == [url |-> h, method |-> m, destination |-> d]

\* the requests the pages of the application (and the browser) issue
Requests ==
    { MkReq("/", "GET", "document"),
      MkReq("/?timestamp=1", "GET", "document"),
      MkReq("/favicon.ico", "GET", "image"),
      MkReq("/app.js", "GET", "script"),
      MkReq("/app.js", "GET", ""),
      MkReq("/app.js?_t=1", "GET", "script"),
      MkReq("/api/products", "GET", ""),
      MkReq("/api/products?nocache=1", "GET", ""),
      MkReq("/api/products", "POST", ""),
      MkReq("https://cdn.example/lib.js", "GET", "script"),
      MkReq("https://cdn.example/api/brands/1.png", "GET", "image"),
      MkReq("chrome-extension://ext/app.js", "GET", "script") }

\* every request over the URLs, for the classification alone
Methods == {"GET", "POST", "PUT", "DELETE"}
Destinations == {"script", "style", "image", "document", "font", ""}
AllRequests == {MkReq(h, m, d) : h \in Hrefs, m \in Methods, d \in Destinations}

\* the cascade without the test of url.origin
Strategy_NoOriginTest(request) ==
    LET url == ParseURL(request.url) IN
    IF ~StartsWith(url.protocol, HttpPrefix) THEN "skip"
    ELSE IF request.method = "GET" THEN
        IF request.destination \in {"script", "style", "image"} THEN "cacheFirst"
        ELSE IF isApiRequest(url) THEN "networkFirst"
        ELSE IF request.destination = "document" THEN "networkFirst"
        ELSE IF url.origin = SelfOrigin THEN "networkFirst"
        ELSE "skip"
    ELSE "skip"

\* the cascade that forgets the destination 'style'
Strategy_NoStyle(request) ==
    LET url == ParseURL(request.url) IN
    IF ~StartsWith(url.protocol, HttpPrefix) THEN "skip"
    ELSE IF url.origin # SelfOrigin /\ ~isApiRequest(url) THEN "skip"
    ELSE IF request.method = "GET" THEN
        IF request.destination \in {"script", "image"} THEN "cacheFirst"
        ELSE IF isApiRequest(url) THEN "networkFirst"
        ELSE IF request.destination = "document" THEN "networkFirst"
        ELSE IF url.origin = SelfOrigin THEN "networkFirst"
        ELSE "skip"
    ELSE "skip"

\* the cascade without the test of request.method
Strategy_AnyMethod(request) ==
    LET url == ParseURL(request.url) IN
    IF ~StartsWith(url.protocol, HttpPrefix) THEN "skip"
    ELSE IF url.origin # SelfOrigin /\ ~isApiRequest(url) THEN "skip"
    ELSE IF request.destination \in {"script", "style", "image"} THEN "cacheFirst"
    ELSE "networkFirst"

\* The cascade of the fetch listener: which strategy it hands the request
\* to with event.respondWith, or "skip" when it returns without responding.
Strategy(request) ==
    LET url == ParseURL(request.url) IN
    IF ~StartsWith(url.protocol, HttpPrefix) THEN "skip"
    ELSE IF url.origin # SelfOrigin /\ ~isApiRequest(url) THEN "skip"
    ELSE IF request.method = "GET" THEN
        IF request.destination \in {"script", "style", "image"} THEN "cacheFirst"
        ELSE IF isApiRequest(url) THEN "networkFirst"
        ELSE IF request.destination = "document" THEN "networkFirst"
        ELSE IF url.origin = SelfOrigin THEN "networkFirst"
        ELSE "skip"
    ELSE "skip"

\* Helper function to check if request is cacheable
isCacheableRequest(request) ==
    LET url == ParseURL(request.url) IN
    IF ~StartsWith(url.protocol, HttpPrefix) THEN FALSE
    ELSE IF "_t" \in url.params \/ "timestamp" \in url.params \/ "nocache" \in url.params
        THEN FALSE
    ELSE IF request.method # "GET" THEN FALSE
    ELSE TRUE

(* ------------------------------ responses ------------------------------ *)
(* kind tells where a Response object was made: by the network, or by one  *)
(* of the two `new Response(...)` expressions of the worker.  ver is the   *)
(* version of the payload the server sent (0: sent to an earlier worker).  *)

MkResponse(k, st, ct, b, v) ==
    [kind |-> k, status |-> st, ctype |-> ct, body |-> b, ver |-> v]

\* the value of a lookup that finds nothing
Undefined == MkResponse("undefined", 0, "", "", 0)

Bodies == 1..MaxBody

NetOk(v) == MkResponse("network", 200, "", "payload", v)
NetError == MkResponse("network", 500, "", "error", 0)
NetworkResponses == {NetOk(v) : v \in Bodies} \cup {NetError}

\* Response.ok
Ok(response) == response.status >= 200 /\ response.status <= 299

\* new Response('Offline', { status: 503 })
Offline503 == MkResponse("synthetic", 503, "", "Offline", 0)

\* new Response(`...You're Offline...`, { headers: { 'Content-Type': 'text/html' } })
OfflinePage == MkResponse("synthetic", 200, "text/html", "You're Offline", 0)

(* ---------------------------- CacheStorage ----------------------------- *)
(* CacheStorage is the list of the caches in the order of their creation;  *)
(* a cache is a name and its entries, a function from the hrefs it holds   *)
(* to the responses stored under them.                                     *)

NoEntries == [h \in {} |-> Undefined]

MkCache(n, e) == [name |-> n, entries |-> e]

Names(cs) == {cs[i].name : i \in 1..Len(cs)}

IndexOf(cs, n) == CHOOSE i \in 1..Len(cs) : cs[i].name = n

Has(cs, n, href) == n \in Names(cs) /\ href \in DOMAIN cs[IndexOf(cs, n)].entries

\* the response the cache named n holds for href (Undefined when none)
EntryOf(cs, n, href) ==
    IF Has(cs, n, href) THEN cs[IndexOf(cs, n)].entries[href] ELSE Undefined

\* cache.match(request) on one cache
CacheMatch(cache, request) ==
    IF request.method = "GET" /\ request.url \in DOMAIN cache.entries
    THEN cache.entries[request.url]
    ELSE Undefined

\* caches.match(request): the first cache, in creation order, that matches
CachesMatch(cs, request) ==
    LET hits == {i \in 1..Len(cs) : CacheMatch(cs[i], request) # Undefined} IN
    IF hits = {} THEN Undefined
    ELSE CacheMatch(cs[CHOOSE i \in hits : \A j \in hits : i <= j], request)

\* caches.open(name): creates the cache when there is none of that name
CachesOpen(cs, n) ==
    IF n \in Names(cs) THEN cs ELSE Append(cs, MkCache(n, NoEntries))

\* a put that stores nothing
CachePut_Dropped(cs, n, href, response) == cs

\* a put that keeps the entry the cache already holds for href
CachePut_KeepsFirst(cs, n, href, response) ==
    [i \in 1..Len(cs) |->
        IF cs[i].name = n
        THEN MkCache(n, [h \in DOMAIN cs[i].entries \cup {href} |->
                            IF h \in DOMAIN cs[i].entries THEN cs[i].entries[h] ELSE response])
        ELSE cs[i]]

\* cache.put(request, response) on the cache named n; a put into a cache
\* that was deleted after it was opened is lost
CachePut(cs, n, href, response) ==
    [i \in 1..Len(cs) |->
        IF cs[i].name = n
        THEN MkCache(n, [h \in DOMAIN cs[i].entries \cup {href} |->
                            IF h = href THEN response ELSE cs[i].entries[h]])
        ELSE cs[i]]

\* caches.delete(name)
CachesDelete(cs, n) == SelectSeq(cs, LAMBDA c : c.name # n)

\* an addAll that stores the first url only
CacheAddAll_FirstOnly(cs, n, urls, response) ==
    IF urls = <<>> THEN cs ELSE CachePut(cs, n, Head(urls), response)

\* cache.addAll(urls): every response is stored, under its url
RECURSIVE CacheAddAll(_, _, _, _)
CacheAddAll(cs, n, urls, response) ==
    IF urls = <<>> THEN cs
    ELSE CacheAddAll(CachePut(cs, n, Head(urls), response), n, Tail(urls), response)

(* ------------------------------- state --------------------------------- *)

VARIABLES
    caches,            \* CacheStorage: the caches in creation order
    workerState,       \* "parsed", "installing", "installed", "activating", "activated", "redundant"
    installError,      \* "none", or the step of the install chain that failed
    installPromise,    \* the promise given to event.waitUntil by the install listener
    installPc,         \* position in the promise chain of the install listener
    skipWaitingCalled, \* self.skipWaiting() was invoked
    activatePc,        \* position in the promise chain of the activate listener
    atActivate,        \* CacheStorage when the activate event was dispatched
    pendingDeletes,    \* names whose caches.delete() has not settled yet
    deleted,           \* names whose caches.delete() succeeded
    activateError,     \* "none", or the step of the activate chain that failed
    activatePromise,   \* the promise given to event.waitUntil by the activate listener
    claimed,           \* self.clients.claim() was invoked
    events,            \* the fetch events dispatched so far, each with its handler
    lazy,              \* LazyLoader.instance, with the promises and calls it has seen
    router,            \* the Router instance, window.location, and its handleRoute invocations
    admin              \* adminStatus of AdminUtils, and the isAdmin calls

installVars == <<installError, installPromise, installPc, skipWaitingCalled>>
activateVars == <<activatePc, atActivate, pendingDeletes, deleted, activateError,
                  activatePromise, claimed>>
swVars == <<caches, workerState, installVars, activateVars, events>>
appVars == <<lazy, router, admin>>
vars == <<swVars, appVars>>

(* What an earlier version of the worker left in CacheStorage: up to       *)
(* MaxPreexisting caches, in any order of creation.                        *)

PreEntries(n) ==
    IF n = STATIC_CACHE THEN [h \in {"/favicon.ico"} |-> NetOk(0)]
    ELSE IF n = DYNAMIC_CACHE THEN [h \in {"/api/products"} |-> NetOk(0)]
    ELSE IF n = CACHE_NAME THEN [h \in {"/favicon.ico"} |-> NetOk(0)]
    ELSE [h \in {"/app.js"} |-> NetOk(0)]

Preexisting ==
    {[i \in 1..Len(ns) |-> MkCache(ns[i], PreEntries(ns[i]))] :
        ns \in {q \in UNION {[1..k -> StoreNames] : k \in 0..MaxPreexisting} :
                    \A i, j \in 1..Len(q) : i # j => q[i] # q[j]}}

\* constructor(): this.cache = new Map(); this.loadingPromises = new Map()
LazyLoaderNew ==
    [cache |-> <<>>, loadingPromises |-> <<>>, promises |-> <<>>, calls |-> <<>>]

\* no route, no invocation
NoRoute == [path |-> "none", component |-> "none", requiresAuth |-> FALSE,
            defaultChild |-> "none", parent |-> "none"]

\* constructor(): this.container = null; this.currentRoute = null; the
\* document is the one the browser loaded, at any of the paths
RouterNew(path) ==
    [location |-> path, container |-> FALSE, unloaded |-> FALSE, auth |-> FALSE,
     child |-> 0, currentRoute |-> [route |-> NoRoute, path |-> "none", by |-> 0],
     invocations |-> <<>>, navs |-> 0]

\* let adminStatus = false
AdminNew ==
    [adminStatus |-> "false", calls |-> <<>>, clock |-> 0, clearedAt |-> 0,
     writer |-> [kind |-> "module", call |-> 0], read |-> "none"]

\* the state of the page's objects after their modules were evaluated
AppInit ==
    /\ lazy = LazyLoaderNew
    /\ router = RouterNew("/")
    /\ admin = AdminNew

\* the state of the worker after its script was evaluated
WorkerInit ==
    /\ caches \in Preexisting
    /\ workerState = "parsed"
    /\ installError = "none"
    /\ installPromise = "none"
    /\ installPc = "idle"
    /\ skipWaitingCalled = FALSE
    /\ activatePc = "idle"
    /\ atActivate = <<>>
    /\ pendingDeletes = {}
    /\ deleted = {}
    /\ activateError = "none"
    /\ activatePromise = "none"
    /\ claimed = FALSE
    /\ events = <<>>

Init == WorkerInit /\ AppInit

(* ------------------------------ install -------------------------------- *)

\* what the host does with the worker when the waitUntil promise settles
AfterInstall(promise) == IF promise = "resolved" THEN "installed" ELSE "redundant"

\* the 'install' event is dispatched: the listener calls caches.open
InstallEvent ==
    /\ workerState = "parsed"
    /\ workerState' = "installing"
    /\ installPc' = "open"
    /\ installPromise' = "pending"
    /\ UNCHANGED <<caches, installError, skipWaitingCalled, activateVars, events, appVars>>

\* .catch(error => console.error(...)): the chain resolves with undefined
InstallCatch(step) ==
    /\ installError' = step
    /\ installPc' = "done"
    /\ installPromise' = "resolved"
    /\ workerState' = AfterInstall("resolved")

\* caches.open(STATIC_CACHE) settles
InstallOpen ==
    /\ installPc = "open"
    /\ \E opened \in BOOLEAN :
        IF opened
        THEN /\ caches' = CachesOpen(caches, STATIC_CACHE)
             /\ installPc' = "addAll"
             /\ UNCHANGED <<workerState, installError, installPromise>>
        ELSE /\ InstallCatch("open")
             /\ UNCHANGED caches
    /\ UNCHANGED <<skipWaitingCalled, activateVars, events, appVars>>

\* cache.addAll(STATIC_ASSETS) settles: it stores the responses only when
\* every one of the fetches gave an ok response
InstallAddAll ==
    /\ installPc = "addAll"
    /\ \E fetched \in [1..Len(STATIC_ASSETS) -> BOOLEAN] :
        IF \A i \in 1..Len(STATIC_ASSETS) : fetched[i]
        THEN /\ caches' = CacheAddAll(caches, STATIC_CACHE, STATIC_ASSETS, NetOk(1))
             /\ installPc' = "skipWaiting"
             /\ UNCHANGED <<workerState, installError, installPromise>>
        ELSE /\ InstallCatch("addAll")
             /\ UNCHANGED caches
    /\ UNCHANGED <<skipWaitingCalled, activateVars, events, appVars>>

\* .then(() => self.skipWaiting()): the chain resolves
InstallSkipWaiting ==
    /\ installPc = "skipWaiting"
    /\ skipWaitingCalled' = TRUE
    /\ installPc' = "done"
    /\ installPromise' = "resolved"
    /\ workerState' = AfterInstall("resolved")
    /\ UNCHANGED <<caches, installError, activateVars, events, appVars>>

(* ------------------------------ activate ------------------------------- *)

\* the filter without the comparison with STATIC_CACHE
IsStale_ForgetsStatic(cacheName) ==
    cacheName # DYNAMIC_CACHE /\ cacheName # CACHE_NAME

\* the filter without the comparison with CACHE_NAME
IsStale_ForgetsBase(cacheName) ==
    cacheName # STATIC_CACHE /\ cacheName # DYNAMIC_CACHE

\* the filter of the activate listener: the names it deletes
IsStale(cacheName) ==
    cacheName # STATIC_CACHE /\ cacheName # DYNAMIC_CACHE /\ cacheName # CACHE_NAME

\* the 'activate' event is dispatched: the listener calls caches.keys
ActivateEvent ==
    /\ workerState = "installed"
    /\ workerState' = "activating"
    /\ activatePc' = "keys"
    /\ activatePromise' = "pending"
    /\ atActivate' = caches
    /\ UNCHANGED <<caches, installVars, pendingDeletes, deleted, activateError, claimed,
                   events, appVars>>

\* .catch(error => console.error(...)): the chain resolves with undefined,
\* and the worker becomes active
ActivateCatch(step) ==
    /\ activateError' = step
    /\ activatePc' = "done"
    /\ activatePromise' = "resolved"
    /\ workerState' = "activated"

\* the listener that does not return Promise.all(...): the chain goes on to
\* clients.claim() while the deletions are in flight
ActivateKeys_NoAwait ==
    /\ activatePc = "keys"
    /\ \E listed \in BOOLEAN :
        IF listed
        THEN /\ pendingDeletes' = {n \in Names(caches) : IsStale(n)}
             /\ activatePc' = "claim"
             /\ UNCHANGED <<workerState, activateError, activatePromise>>
        ELSE /\ ActivateCatch("keys")
             /\ UNCHANGED pendingDeletes
    /\ UNCHANGED <<caches, installVars, atActivate, deleted, claimed, events, appVars>>

\* caches.keys() settles; every stale name gets its caches.delete() call
ActivateKeys ==
    /\ activatePc = "keys"
    /\ \E listed \in BOOLEAN :
        IF listed
        THEN /\ pendingDeletes' = {n \in Names(caches) : IsStale(n)}
             /\ activatePc' = IF pendingDeletes' = {} THEN "claim" ELSE "deleting"
             /\ UNCHANGED <<workerState, activateError, activatePromise>>
        ELSE /\ ActivateCatch("keys")
             /\ UNCHANGED pendingDeletes
    /\ UNCHANGED <<caches, installVars, atActivate, deleted, claimed, events, appVars>>

\* one caches.delete(cacheName) settles.  Promise.all rejects with the first
\* rejection; the deletions still in flight then go on on their own.
ActivateDelete ==
    /\ \E n \in pendingDeletes, removed \in BOOLEAN :
        /\ pendingDeletes' = pendingDeletes \ {n}
        /\ IF removed
           THEN /\ caches' = CachesDelete(caches, n)
                /\ deleted' = deleted \cup {n}
                /\ activatePc' = IF activatePc = "deleting" /\ pendingDeletes' = {}
                                 THEN "claim" ELSE activatePc
                /\ UNCHANGED <<workerState, activateError, activatePromise>>
           ELSE /\ UNCHANGED <<caches, deleted>>
                /\ IF activatePc = "deleting"
                   THEN ActivateCatch("delete")
                   ELSE UNCHANGED <<workerState, activateError, activatePromise, activatePc>>
    /\ UNCHANGED <<installVars, atActivate, claimed, events, appVars>>

\* .then(() => self.clients.claim()): the chain resolves
ActivateClaim ==
    /\ activatePc = "claim"
    /\ claimed' = TRUE
    /\ activatePc' = "done"
    /\ activatePromise' = "resolved"
    /\ workerState' = "activated"
    /\ UNCHANGED <<caches, installVars, atActivate, pendingDeletes, deleted, activateError,
                   events, appVars>>

(* -------------------------------- sync --------------------------------- *)

\* the 'sync' listener: for the tag 'background-sync' it runs
\* doBackgroundSync(), which writes a line to the console and nothing else
SyncEvent ==
    /\ workerState = "activated"
    /\ \E tag \in {"background-sync", "periodic"} : UNCHANGED vars

(* ---------------------------- fetch events ----------------------------- *)
(* One record per dispatched fetch event.  pc is the await the strategy is *)
(* suspended at; settled is the state of the promise given to respondWith  *)
(* ("none" when respondWith was not called).  The other fields record what *)
(* the handler did: fetched (it called fetch), net (what fetch gave),       *)
(* netFailed (fetch rejected), wrote / writeFailed (the outcome of open +  *)
(* put), lookup and fallback (the outcome of the caches.match call at the  *)
(* head of cacheFirst and of the one in a catch block: "none", "answered"  *)
(* or "failed"), and seenAtLookup / seenAtFallback: CacheStorage as it was *)
(* when that call was answered.                                            *)

NewEvent(request) ==
    LET strategy == Strategy(request) IN
    [ req |-> request,
      strategy |-> strategy,
      responded |-> strategy # "skip",
      pc |-> CASE strategy = "cacheFirst" -> "cf_match"
               [] strategy = "networkFirst" -> "nf_fetch"
               [] OTHER -> "done",
      settled |-> IF strategy = "skip" THEN "none" ELSE "pending",
      result |-> Undefined,
      fetched |-> strategy = "networkFirst",
      net |-> Undefined,
      netFailed |-> FALSE,
      wrote |-> FALSE,
      writeFailed |-> FALSE,
      lookup |-> "none",
      seenAtLookup |-> <<>>,
      fallback |-> "none",
      seenAtFallback |-> <<>> ]

\* the 'fetch' event is dispatched to the active worker
FetchEvent ==
    /\ workerState = "activated"
    /\ Len(events) + 1 \in EventIds
    /\ \E request \in Requests : events' = Append(events, NewEvent(request))
    /\ UNCHANGED <<caches, workerState, installVars, activateVars, appVars>>

\* return response
Resolve(e, response) ==
    [e EXCEPT !.pc = "done", !.settled = "resolved", !.result = response]

\* an exception leaves the async function
Reject(e) == [e EXCEPT !.pc = "done", !.settled = "rejected"]

\* the inner try without its catch: the failure of the write reaches the
\* catch block of the strategy
WriteFailed_Escapes(e) ==
    [e EXCEPT !.writeFailed = TRUE,
              !.pc = IF e.strategy = "cacheFirst" THEN "cf_catch" ELSE "nf_catch"]

\* catch (cacheError): console.warn, then return networkResponse
WriteFailed(e) == Resolve([e EXCEPT !.writeFailed = TRUE], e.net)

\* the test without networkResponse.ok
ShouldCache_AnyStatus(request, networkResponse) == isCacheableRequest(request)

\* the test without isCacheableRequest
ShouldCache_OkOnly(request, networkResponse) == Ok(networkResponse)

\* if (networkResponse.ok && isCacheableRequest(request))
ShouldCache(request, networkResponse) ==
    Ok(networkResponse) /\ isCacheableRequest(request)

\* the catch block without its second lookup
CacheFirstFallback_NoLookup(request, cachedResponse) == Offline503

\* the catch block returning the lookup's value unchecked
CacheFirstFallback_Unchecked(request, cachedResponse) == cachedResponse

\* the end of the catch block of cacheFirst
CacheFirstFallback(request, cachedResponse) ==
    IF cachedResponse # Undefined THEN cachedResponse ELSE Offline503

\* the catch block without the branch for navigation requests
NetworkFirstFallback_NoPage(request, cachedResponse) ==
    IF cachedResponse # Undefined THEN cachedResponse ELSE Offline503

\* the catch block that does not look at the lookup's value
NetworkFirstFallback_NoCache(request, cachedResponse) ==
    IF request.destination = "document" THEN OfflinePage ELSE Offline503

\* the end of the catch block of networkFirst
NetworkFirstFallback(request, cachedResponse) ==
    IF cachedResponse # Undefined THEN cachedResponse
    ELSE IF request.destination = "document" THEN OfflinePage
    ELSE Offline503

\* cacheFirst once fetch has given a response: the write when the test
\* passes, else return networkResponse
CacheFirstResponse(e, networkResponse) ==
    IF ShouldCache(e.req, networkResponse)
    THEN [e EXCEPT !.net = networkResponse, !.pc = "cf_open"]
    ELSE Resolve([e EXCEPT !.net = networkResponse], networkResponse)

\* networkFirst treating a response that is not ok as a failure of the fetch
NetworkFirstResponse_ThrowsOnError(e, networkResponse) ==
    IF ~Ok(networkResponse)
    THEN [e EXCEPT !.net = networkResponse, !.pc = "nf_catch"]
    ELSE IF ShouldCache(e.req, networkResponse)
    THEN [e EXCEPT !.net = networkResponse, !.pc = "nf_open"]
    ELSE Resolve([e EXCEPT !.net = networkResponse], networkResponse)

\* networkFirst once fetch has given a response: the write when the test
\* passes, else return networkResponse
NetworkFirstResponse(e, networkResponse) ==
    IF ShouldCache(e.req, networkResponse)
    THEN [e EXCEPT !.net = networkResponse, !.pc = "nf_open"]
    ELSE Resolve([e EXCEPT !.net = networkResponse], networkResponse)

HandlerFrame == UNCHANGED <<workerState, installVars, activateVars, appVars>>

(* cacheFirst *)

\* const cachedResponse = await caches.match(request) settles
CacheFirstMatch ==
    \E i \in 1..Len(events) :
    LET e == events[i] IN
    /\ e.pc = "cf_match"
    /\ \E answered \in BOOLEAN :
        IF answered
        THEN LET cachedResponse == CachesMatch(caches, e.req)
                 seen == [e EXCEPT !.lookup = "answered", !.seenAtLookup = caches]
             IN events' = [events EXCEPT ![i] =
                    IF cachedResponse # Undefined
                    THEN Resolve(seen, cachedResponse)
                    ELSE [seen EXCEPT !.pc = "cf_fetch", !.fetched = TRUE]]
        ELSE events' = [events EXCEPT ![i] =
                    [e EXCEPT !.pc = "cf_catch", !.lookup = "failed"]]
    /\ UNCHANGED caches
    /\ HandlerFrame

\* const networkResponse = await fetch(request) settles
CacheFirstFetch ==
    \E i \in 1..Len(events) :
    LET e == events[i] IN
    /\ e.pc = "cf_fetch"
    /\ \/ \E networkResponse \in NetworkResponses :
            events' = [events EXCEPT ![i] = CacheFirstResponse(e, networkResponse)]
       \/ events' = [events EXCEPT ![i] = [e EXCEPT !.netFailed = TRUE, !.pc = "cf_catch"]]
    /\ UNCHANGED caches
    /\ HandlerFrame

\* const cache = await caches.open(STATIC_CACHE) settles
CacheFirstOpen ==
    \E i \in 1..Len(events) :
    LET e == events[i] IN
    /\ e.pc = "cf_open"
    /\ \E opened \in BOOLEAN :
        IF opened
        THEN /\ caches' = CachesOpen(caches, STATIC_CACHE)
             /\ events' = [events EXCEPT ![i] = [e EXCEPT !.pc = "cf_put"]]
        ELSE /\ UNCHANGED caches
             /\ events' = [events EXCEPT ![i] = WriteFailed(e)]
    /\ HandlerFrame

\* await cache.put(request, networkResponse.clone()) settles
CacheFirstPut ==
    \E i \in 1..Len(events) :
    LET e == events[i] IN
    /\ e.pc = "cf_put"
    /\ \E stored \in BOOLEAN :
        IF stored
        THEN /\ caches' = CachePut(caches, STATIC_CACHE, e.req.url, e.net)
             /\ events' = [events EXCEPT ![i] = Resolve([e EXCEPT !.wrote = TRUE], e.net)]
        ELSE /\ UNCHANGED caches
             /\ events' = [events EXCEPT ![i] = WriteFailed(e)]
    /\ HandlerFrame

\* catch (error): const cachedResponse = await caches.match(request) settles
CacheFirstCatch ==
    \E i \in 1..Len(events) :
    LET e == events[i] IN
    /\ e.pc = "cf_catch"
    /\ \E answered \in BOOLEAN :
        IF answered
        THEN events' = [events EXCEPT ![i] =
                Resolve([e EXCEPT !.fallback = "answered", !.seenAtFallback = caches],
                        CacheFirstFallback(e.req, CachesMatch(caches, e.req)))]
        ELSE events' = [events EXCEPT ![i] = Reject([e EXCEPT !.fallback = "failed"])]
    /\ UNCHANGED caches
    /\ HandlerFrame

(* networkFirst *)

\* const networkResponse = await fetch(request) settles
NetworkFirstFetch ==
    \E i \in 1..Len(events) :
    LET e == events[i] IN
    /\ e.pc = "nf_fetch"
    /\ \/ \E networkResponse \in NetworkResponses :
            events' = [events EXCEPT ![i] = NetworkFirstResponse(e, networkResponse)]
       \/ events' = [events EXCEPT ![i] = [e EXCEPT !.netFailed = TRUE, !.pc = "nf_catch"]]
    /\ UNCHANGED caches
    /\ HandlerFrame

\* const cache = await caches.open(DYNAMIC_CACHE) settles
NetworkFirstOpen ==
    \E i \in 1..Len(events) :
    LET e == events[i] IN
    /\ e.pc = "nf_open"
    /\ \E opened \in BOOLEAN :
        IF opened
        THEN /\ caches' = CachesOpen(caches, DYNAMIC_CACHE)
             /\ events' = [events EXCEPT ![i] = [e EXCEPT !.pc = "nf_put"]]
        ELSE /\ UNCHANGED caches
             /\ events' = [events EXCEPT ![i] = WriteFailed(e)]
    /\ HandlerFrame

\* networkFirst opening and writing the static store
NetworkFirstPut_IntoStatic ==
    \E i \in 1..Len(events) :
    LET e == events[i] IN
    /\ e.pc = "nf_put"
    /\ \E stored \in BOOLEAN :
        IF stored
        THEN /\ caches' = CachePut(CachesOpen(caches, STATIC_CACHE), STATIC_CACHE, e.req.url, e.net)
             /\ events' = [events EXCEPT ![i] = Resolve([e EXCEPT !.wrote = TRUE], e.net)]
        ELSE /\ UNCHANGED caches
             /\ events' = [events EXCEPT ![i] = WriteFailed(e)]
    /\ HandlerFrame

\* await cache.put(request, networkResponse.clone()) settles
NetworkFirstPut ==
    \E i \in 1..Len(events) :
    LET e == events[i] IN
    /\ e.pc = "nf_put"
    /\ \E stored \in BOOLEAN :
        IF stored
        THEN /\ caches' = CachePut(caches, DYNAMIC_CACHE, e.req.url, e.net)
             /\ events' = [events EXCEPT ![i] = Resolve([e EXCEPT !.wrote = TRUE], e.net)]
        ELSE /\ UNCHANGED caches
             /\ events' = [events EXCEPT ![i] = WriteFailed(e)]
    /\ HandlerFrame

\* catch (error): const cachedResponse = await caches.match(request) settles
NetworkFirstCatch ==
    \E i \in 1..Len(events) :
    LET e == events[i] IN
    /\ e.pc = "nf_catch"
    /\ \E answered \in BOOLEAN :
        IF answered
        THEN events' = [events EXCEPT ![i] =
                Resolve([e EXCEPT !.fallback = "answered", !.seenAtFallback = caches],
                        NetworkFirstFallback(e.req, CachesMatch(caches, e.req)))]
        ELSE events' = [events EXCEPT ![i] = Reject([e EXCEPT !.fallback = "failed"])]
    /\ UNCHANGED caches
    /\ HandlerFrame

(* ---------------------------- specification ---------------------------- *)

Next ==
    \/ InstallEvent
    \/ InstallOpen
    \/ InstallAddAll
    \/ InstallSkipWaiting
    \/ ActivateEvent
    \/ ActivateKeys
    \/ ActivateDelete
    \/ ActivateClaim
    \/ SyncEvent
    \/ FetchEvent
    \/ CacheFirstMatch
    \/ CacheFirstFetch
    \/ CacheFirstOpen
    \/ CacheFirstPut
    \/ CacheFirstCatch
    \/ NetworkFirstFetch
    \/ NetworkFirstOpen
    \/ NetworkFirstPut
    \/ NetworkFirstCatch

Spec == Init /\ [][Next]_vars

(* The same worker with one fetch event, drawn from every request over the *)
(* URLs, methods and destinations.                                         *)

FetchEventWide ==
    /\ workerState = "activated"
    /\ events = <<>>
    /\ \E request \in AllRequests : events' = Append(events, NewEvent(request))
    /\ UNCHANGED <<caches, workerState, installVars, activateVars, appVars>>

NextWide ==
    \/ InstallEvent
    \/ InstallOpen
    \/ InstallAddAll
    \/ InstallSkipWaiting
    \/ ActivateEvent
    \/ ActivateKeys
    \/ ActivateDelete
    \/ ActivateClaim
    \/ SyncEvent
    \/ FetchEventWide
    \/ CacheFirstMatch
    \/ CacheFirstFetch
    \/ CacheFirstOpen
    \/ CacheFirstPut
    \/ CacheFirstCatch
    \/ NetworkFirstFetch
    \/ NetworkFirstOpen
    \/ NetworkFirstPut
    \/ NetworkFirstCatch

SpecWide == Init /\ [][NextWide]_vars

(* ------------------------------ LazyLoader ----------------------------- *)
(* lazy.cache and lazy.loadingPromises are the two Maps of the instance,    *)
(* as functions over the keys they hold.  lazy.promises lists the loading   *)
(* promises made so far: import is the state of the promise importFn()      *)
(* returned, state and value those of importFn().then(...).catch(...).      *)
(* lazy.calls lists the loadComponent calls with what each one returned.    *)

MaxLoads == 4

LazyKeys == {"HomePage", "LoginPage"}

\* what an import promise can resolve with: a module with a default export,
\* a module without one, and undefined
Modules ==
    { [name |-> "ModuleA", default |-> "ComponentA"],
      [name |-> "ModuleB", default |-> "none"],
      [name |-> "undefined", default |-> "none"] }

NoModule == [name |-> "none", default |-> "none"]

\* module.default || module
ComponentOf(module) == IF module.default # "none" THEN module.default ELSE module.name

\* map.set(key, value)
MapSet(map, key, value) ==
    [k \in DOMAIN map \cup {key} |-> IF k = key THEN value ELSE map[k]]

\* map.delete(key)
MapDelete(map, key) == [k \in DOMAIN map \ {key} |-> map[k]]

MkCall(key, how, value, promise, swallowed) ==
    [key |-> key, how |-> how, value |-> value, promise |-> promise, swallowed |-> swallowed]

\* loadComponent without the test of this.loadingPromises
LoadComponent_NoJoin(L, key, threw, swallowed) ==
    IF key \in DOMAIN L.cache
    THEN [L EXCEPT !.calls = Append(@, MkCall(key, "cached", L.cache[key], 0, swallowed))]
    ELSE IF threw
    THEN [L EXCEPT !.calls = Append(@, MkCall(key, "threw", "none", 0, swallowed))]
    ELSE [L EXCEPT
            !.promises = Append(@, [key |-> key, import |-> "pending", module |-> NoModule,
                                    state |-> "pending", value |-> "none"]),
            !.loadingPromises = MapSet(@, key, Len(L.promises) + 1),
            !.calls = Append(@, MkCall(key, "started", "none", Len(L.promises) + 1, swallowed))]

\* loadComponent(importFn, key): the body runs without an await, in one step
LoadComponent(L, key, threw, swallowed) ==
    IF key \in DOMAIN L.cache
    THEN [L EXCEPT !.calls = Append(@, MkCall(key, "cached", L.cache[key], 0, swallowed))]
    ELSE IF key \in DOMAIN L.loadingPromises
    THEN [L EXCEPT !.calls = Append(@, MkCall(key, "joined", "none", L.loadingPromises[key],
                                             swallowed))]
    ELSE IF threw
    THEN [L EXCEPT !.calls = Append(@, MkCall(key, "threw", "none", 0, swallowed))]
    ELSE [L EXCEPT
            !.promises = Append(@, [key |-> key, import |-> "pending", module |-> NoModule,
                                    state |-> "pending", value |-> "none"]),
            !.loadingPromises = MapSet(@, key, Len(L.promises) + 1),
            !.calls = Append(@, MkCall(key, "started", "none", Len(L.promises) + 1, swallowed))]

\* the .catch callback that leaves the key in loadingPromises
CatchCallbackOf_KeepsKey(L, p) ==
    [L EXCEPT !.promises[p].state = "rejected"]

\* .catch(error => { this.loadingPromises.delete(key); ...; throw error })
CatchCallbackOf(L, p) ==
    [L EXCEPT !.loadingPromises = MapDelete(@, L.promises[p].key),
              !.promises[p].state = "rejected"]

\* .then(module => { ... }): reading module.default of undefined throws, and
\* the .catch callback takes over
ThenCallbackOf(L, p) ==
    LET module == L.promises[p].module
        key == L.promises[p].key
    IN IF module.name = "undefined" THEN CatchCallbackOf(L, p)
       ELSE [L EXCEPT !.cache = MapSet(@, key, ComponentOf(module)),
                      !.loadingPromises = MapDelete(@, key),
                      !.promises[p].state = "fulfilled",
                      !.promises[p].value = ComponentOf(module)]

\* a caller invokes loadComponent; importFn returns a promise or throws
LoadComponentCall ==
    /\ Len(lazy.calls) < MaxLoads
    /\ \E key \in LazyKeys, threw \in BOOLEAN :
        lazy' = LoadComponent(lazy, key, threw, FALSE)
    /\ UNCHANGED <<swVars, router, admin>>

\* preloadComponents(components): components.map calls loadComponent for
\* each element in turn, with .catch(() => {}) on what it returns
PreloadComponents ==
    /\ Len(lazy.calls) + 2 <= MaxLoads
    /\ \E k1, k2 \in LazyKeys, t1, t2 \in BOOLEAN :
        lazy' = LoadComponent(LoadComponent(lazy, k1, t1, TRUE), k2, t2, TRUE)
    /\ UNCHANGED <<swVars, router, admin>>

\* the promise importFn() returned settles
ImportSettles ==
    /\ \E p \in 1..Len(lazy.promises) :
        /\ lazy.promises[p].import = "pending"
        /\ \/ \E module \in Modules :
                lazy' = [lazy EXCEPT !.promises[p].import = "resolved",
                                     !.promises[p].module = module]
           \/ lazy' = [lazy EXCEPT !.promises[p].import = "rejected"]
    /\ UNCHANGED <<swVars, router, admin>>

\* the .then callback of a loading promise runs
ThenCallback ==
    /\ \E p \in 1..Len(lazy.promises) :
        /\ lazy.promises[p].import = "resolved"
        /\ lazy.promises[p].state = "pending"
        /\ lazy' = ThenCallbackOf(lazy, p)
    /\ UNCHANGED <<swVars, router, admin>>

\* the .catch callback of a loading promise runs
CatchCallback ==
    /\ \E p \in 1..Len(lazy.promises) :
        /\ lazy.promises[p].import = "rejected"
        /\ lazy.promises[p].state = "pending"
        /\ lazy' = CatchCallbackOf(lazy, p)
    /\ UNCHANGED <<swVars, router, admin>>

\* the worker is not running: CacheStorage is empty and stays so
InitLazy == Init /\ caches = <<>>

NextLazy ==
    \/ LoadComponentCall
    \/ PreloadComponents
    \/ ImportSettles
    \/ ThenCallback
    \/ CatchCallback

SpecLazy == InitLazy /\ [][NextLazy]_vars

(* -------------------------------- Router -------------------------------- *)
(* router.location is window.location.pathname, router.container tells    *)
(* whether init(container) has run, router.child what the container holds:  *)
(* 0 for nothing, -1 for the error markup, i for the routeContainer made by *)
(* handleRoute invocation i.  router.auth is what AuthService.checkAuth     *)
(* answers at the moment.  Each invocation carries the navigation (nav) it  *)
(* serves, the number of redirects before it (depth) and the answers of     *)
(* checkAuth along its chain (chainAuth).                                   *)

\* the navigations (init, navigate, popstate, hashchange) a run has: two
\* can overlap
NavIds == {1, 2}
MaxRedirects == 3

\* setupRoutes(): the route table, in insertion order
RouteTable_LoginProtected ==
    << [path |-> "/", component |-> "HomePage", requiresAuth |-> FALSE,
         defaultChild |-> "none", parent |-> "none"],
       [path |-> "/katalog", component |-> "KatalogPage", requiresAuth |-> FALSE,
         defaultChild |-> "none", parent |-> "none"],
       [path |-> "/wishlist", component |-> "WishListPage", requiresAuth |-> FALSE,
         defaultChild |-> "none", parent |-> "none"],
       [path |-> "/brands", component |-> "UserBrandsPage", requiresAuth |-> FALSE,
         defaultChild |-> "none", parent |-> "none"],
       [path |-> "/detail", component |-> "DetailPage", requiresAuth |-> FALSE,
         defaultChild |-> "none", parent |-> "none"],
       [path |-> "/search", component |-> "UserSearchResult", requiresAuth |-> FALSE,
         defaultChild |-> "none", parent |-> "none"],
       [path |-> "/login", component |-> "LoginPage", requiresAuth |-> TRUE,
         defaultChild |-> "none", parent |-> "none"],
       [path |-> "/admin", component |-> "AdminDashboard", requiresAuth |-> TRUE,
         defaultChild |-> "/admin/dashboard", parent |-> "none"],
       [path |-> "/admin/dashboard", component |-> "DashboardPage", requiresAuth |-> TRUE,
         defaultChild |-> "none", parent |-> "/admin"],
       [path |-> "/admin/products", component |-> "ProductsPage", requiresAuth |-> TRUE,
         defaultChild |-> "none", parent |-> "/admin"],
       [path |-> "/admin/brands", component |-> "BrandsPage", requiresAuth |-> TRUE,
         defaultChild |-> "none", parent |-> "/admin"],
       [path |-> "/admin/categories", component |-> "CategoriesPage", requiresAuth |-> TRUE,
         defaultChild |-> "none", parent |-> "/admin"],
       [path |-> "/admin/banners", component |-> "BannersPage", requiresAuth |-> TRUE,
         defaultChild |-> "none", parent |-> "/admin"],
       [path |-> "/admin/admins", component |-> "AdminManagementPage", requiresAuth |-> TRUE,
         defaultChild |-> "none", parent |-> "/admin"] >>

RouteTable ==
    << [path |-> "/", component |-> "HomePage", requiresAuth |-> FALSE,
         defaultChild |-> "none", parent |-> "none"],
       [path |-> "/katalog", component |-> "KatalogPage", requiresAuth |-> FALSE,
         defaultChild |-> "none", parent |-> "none"],
       [path |-> "/wishlist", component |-> "WishListPage", requiresAuth |-> FALSE,
         defaultChild |-> "none", parent |-> "none"],
       [path |-> "/brands", component |-> "UserBrandsPage", requiresAuth |-> FALSE,
         defaultChild |-> "none", parent |-> "none"],
       [path |-> "/detail", component |-> "DetailPage", requiresAuth |-> FALSE,
         defaultChild |-> "none", parent |-> "none"],
       [path |-> "/search", component |-> "UserSearchResult", requiresAuth |-> FALSE,
         defaultChild |-> "none", parent |-> "none"],
       [path |-> "/login", component |-> "LoginPage", requiresAuth |-> FALSE,
         defaultChild |-> "none", parent |-> "none"],
       [path |-> "/admin", component |-> "AdminDashboard", requiresAuth |-> TRUE,
         defaultChild |-> "/admin/dashboard", parent |-> "none"],
       [path |-> "/admin/dashboard", component |-> "DashboardPage", requiresAuth |-> TRUE,
         defaultChild |-> "none", parent |-> "/admin"],
       [path |-> "/admin/products", component |-> "ProductsPage", requiresAuth |-> TRUE,
         defaultChild |-> "none", parent |-> "/admin"],
       [path |-> "/admin/brands", component |-> "BrandsPage", requiresAuth |-> TRUE,
         defaultChild |-> "none", parent |-> "/admin"],
       [path |-> "/admin/categories", component |-> "CategoriesPage", requiresAuth |-> TRUE,
         defaultChild |-> "none", parent |-> "/admin"],
       [path |-> "/admin/banners", component |-> "BannersPage", requiresAuth |-> TRUE,
         defaultChild |-> "none", parent |-> "/admin"],
       [path |-> "/admin/admins", component |-> "AdminManagementPage", requiresAuth |-> TRUE,
         defaultChild |-> "none", parent |-> "/admin"] >>

\* the paths the browser is sent to: routes, paths under the '/admin'
\* prefix that are no routes, and a path that matches nothing
UnknownPaths == {"/admin/reports", "/administrator", "/cart"}
StartPaths ==
    {"/", "/katalog", "/login", "/admin", "/admin/dashboard"} \cup UnknownPaths

\* the characters of a path
Chars(path) ==
    CASE
         path = "/" -> <<"/">>
      [] path = "/katalog" -> <<"/", "k", "a", "t", "a", "l", "o", "g">>
      [] path = "/wishlist" -> <<"/", "w", "i", "s", "h", "l", "i", "s", "t">>
      [] path = "/brands" -> <<"/", "b", "r", "a", "n", "d", "s">>
      [] path = "/detail" -> <<"/", "d", "e", "t", "a", "i", "l">>
      [] path = "/search" -> <<"/", "s", "e", "a", "r", "c", "h">>
      [] path = "/login" -> <<"/", "l", "o", "g", "i", "n">>
      [] path = "/admin" -> <<"/", "a", "d", "m", "i", "n">>
      [] path = "/admin/dashboard" -> <<"/", "a", "d", "m", "i", "n", "/", "d", "a", "s", "h", "b", "o", "a", "r", "d">>
      [] path = "/admin/products" -> <<"/", "a", "d", "m", "i", "n", "/", "p", "r", "o", "d", "u", "c", "t", "s">>
      [] path = "/admin/brands" -> <<"/", "a", "d", "m", "i", "n", "/", "b", "r", "a", "n", "d", "s">>
      [] path = "/admin/categories" -> <<"/", "a", "d", "m", "i", "n", "/", "c", "a", "t", "e", "g", "o", "r", "i", "e", "s">>
      [] path = "/admin/banners" -> <<"/", "a", "d", "m", "i", "n", "/", "b", "a", "n", "n", "e", "r", "s">>
      [] path = "/admin/admins" -> <<"/", "a", "d", "m", "i", "n", "/", "a", "d", "m", "i", "n", "s">>
      [] path = "/admin/reports" -> <<"/", "a", "d", "m", "i", "n", "/", "r", "e", "p", "o", "r", "t", "s">>
      [] path = "/administrator" -> <<"/", "a", "d", "m", "i", "n", "i", "s", "t", "r", "a", "t", "o", "r">>
      [] path = "/cart" -> <<"/", "c", "a", "r", "t">>

\* the prefix search without the test of defaultChild
FindRoute_AnyPrefix(path) ==
    LET exact == {k \in 1..Len(RouteTable) : RouteTable[k].path = path}
        prefix == {k \in 1..Len(RouteTable) :
                        StartsWith(Chars(path), Chars(RouteTable[k].path))}
    IN IF exact # {} THEN RouteTable[CHOOSE k \in exact : TRUE]
       ELSE IF prefix # {} THEN RouteTable[CHOOSE k \in prefix : \A j \in prefix : k <= j]
       ELSE NoRoute

\* this.routes.get(path), or else the first route whose path is a prefix of
\* path and that has a defaultChild
FindRoute(path) ==
    LET exact == {k \in 1..Len(RouteTable) : RouteTable[k].path = path}
        prefix == {k \in 1..Len(RouteTable) :
                        /\ StartsWith(Chars(path), Chars(RouteTable[k].path))
                        /\ RouteTable[k].defaultChild # "none"}
    IN IF exact # {} THEN RouteTable[CHOOSE k \in exact : TRUE]
       ELSE IF prefix # {} THEN RouteTable[CHOOSE k \in prefix : \A j \in prefix : k <= j]
       ELSE NoRoute

NewInvocation(nav, depth, chainAuth, path, route) ==
    [nav |-> nav, depth |-> depth, chainAuth |-> chainAuth, path |-> path, route |-> route,
     pc |-> "checkAuth", auth |-> "none", redirect |-> "none", renderCalled |-> FALSE,
     outcome |-> "none"]

\* handleRoute() up to its first await: the path is read, the route looked
\* up, and a path without a route is replaced by '/' through navigate, which
\* calls handleRoute again
RECURSIVE HandleRoute(_, _, _, _)
HandleRoute(R, nav, depth, chainAuth) ==
    LET path == R.location
        route == FindRoute(path)
    IN IF route = NoRoute
       THEN HandleRoute(
                [R EXCEPT !.location = "/",
                          !.invocations = Append(@,
                              [NewInvocation(nav, depth, chainAuth, path, route)
                                  EXCEPT !.pc = "done", !.redirect = "/"])],
                nav, depth + 1, chainAuth)
       ELSE [R EXCEPT !.invocations = Append(@, NewInvocation(nav, depth, chainAuth, path, route))]

\* the test that forgets the routes matched by prefix
NeedsLogin_ExactOnly(route, path, isAuthenticated) ==
    route.requiresAuth /\ ~isAuthenticated /\ route.path = path

\* route.requiresAuth && !isAuthenticated
NeedsLogin(route, path, isAuthenticated) == route.requiresAuth /\ ~isAuthenticated

\* this.navigate(target, true); return
Redirect(R, i, target, answer) ==
    LET inv == R.invocations[i] IN
    HandleRoute([R EXCEPT !.location = target,
                          !.invocations[i].pc = "done",
                          !.invocations[i].redirect = target],
                inv.nav, inv.depth + 1, inv.chainAuth \cup {answer})

\* routeContainer is attached to the emptied container, the component is
\* constructed, and the first render is awaited
Attach(R, i) ==
    [R EXCEPT !.child = i,
              !.invocations[i].pc =
                    IF R.invocations[i].route.parent # "none" THEN "renderParent" ELSE "render"]

\* renderRoute(route, path) up to its first await
RenderRoute(R, i) ==
    LET R1 == [R EXCEPT !.invocations[i].renderCalled = TRUE] IN
    IF ~R1.container
    THEN [R1 EXCEPT !.invocations[i].pc = "done", !.invocations[i].outcome = "noContainer"]
    ELSE IF R1.child # 0
    THEN [R1 EXCEPT !.invocations[i].pc = "exitWait"]
    ELSE Attach(R1, i)

\* handleRoute() after checkAuth answered
AfterCheckAuth(R, i, isAuthenticated) ==
    LET inv == R.invocations[i]
        R1 == [R EXCEPT !.invocations[i].auth = IF isAuthenticated THEN "true" ELSE "false",
                        !.invocations[i].chainAuth = @ \cup {isAuthenticated}]
    IN IF NeedsLogin(inv.route, inv.path, isAuthenticated)
       THEN Redirect(R1, i, "/login", isAuthenticated)
       ELSE IF ~inv.route.requiresAuth /\ isAuthenticated /\ inv.path = "/login"
       THEN Redirect(R1, i, "/admin/dashboard", isAuthenticated)
       ELSE IF inv.route.defaultChild # "none" /\ inv.path = inv.route.path
       THEN Redirect(R1, i, inv.route.defaultChild, isAuthenticated)
       ELSE RenderRoute(R1, i)

\* catch (error): the container gets the error markup
RenderFailed(R, i) ==
    [R EXCEPT !.child = -1, !.invocations[i].pc = "done", !.invocations[i].outcome = "error"]

RouterFrame == UNCHANGED <<swVars, lazy, admin>>

Live == ~router.unloaded

\* init(container), with the initial handleRoute()
RouterInit ==
    /\ Live /\ ~router.container
    /\ router.navs + 1 \in NavIds
    /\ router' = HandleRoute([router EXCEPT !.container = TRUE, !.navs = @ + 1],
                             router.navs + 1, 0, {})
    /\ RouterFrame

\* navigate(path) called by the application
Navigate ==
    /\ Live
    /\ router.navs + 1 \in NavIds
    /\ \E path \in StartPaths :
        router' = HandleRoute([router EXCEPT !.location = path, !.navs = @ + 1],
                              router.navs + 1, 0, {})
    /\ RouterFrame

\* the user goes back or forward: 'popstate'
Popstate ==
    /\ Live /\ router.container
    /\ router.navs + 1 \in NavIds
    /\ \E path \in StartPaths :
        router' = HandleRoute([router EXCEPT !.location = path, !.navs = @ + 1],
                              router.navs + 1, 0, {})
    /\ RouterFrame

\* 'hashchange': a hash that starts with '#/' sends the browser to another
\* document, any other hash ends in handleRoute()
Hashchange ==
    /\ Live /\ router.container
    /\ router.navs + 1 \in NavIds
    /\ \E hashRoute \in BOOLEAN :
        IF hashRoute
        THEN router' = [router EXCEPT !.unloaded = TRUE]
        ELSE router' = HandleRoute([router EXCEPT !.navs = @ + 1], router.navs + 1, 0, {})
    /\ RouterFrame

\* the user logs in or out
AuthChanges ==
    /\ Live
    /\ router' = [router EXCEPT !.auth = ~@]
    /\ RouterFrame

\* await this.authService.checkAuth() settles
CheckAuthSettles ==
    /\ Live
    /\ \E i \in 1..Len(router.invocations) :
        /\ router.invocations[i].pc = "checkAuth"
        /\ \/ /\ router.invocations[i].depth < MaxRedirects
              /\ router' = AfterCheckAuth(router, i, router.auth)
           \/ router' = [router EXCEPT !.invocations[i].pc = "rejected",
                                       !.invocations[i].auth = "failed"]
    /\ RouterFrame

\* the 300 ms of the exit animation are over
ExitAnimationDone ==
    /\ Live
    /\ \E i \in 1..Len(router.invocations) :
        /\ router.invocations[i].pc = "exitWait"
        /\ router' = Attach(router, i)
    /\ RouterFrame

\* await parentComponent.render(routeContainer) settles
ParentRenderSettles ==
    /\ Live
    /\ \E i \in 1..Len(router.invocations) :
        /\ router.invocations[i].pc = "renderParent"
        /\ \E rendered \in BOOLEAN :
            router' = IF rendered THEN [router EXCEPT !.invocations[i].pc = "render"]
                      ELSE RenderFailed(router, i)
    /\ RouterFrame

\* await component.render(...) settles; this.currentRoute = { route, path, component }
RenderSettles ==
    /\ Live
    /\ \E i \in 1..Len(router.invocations) :
        /\ router.invocations[i].pc = "render"
        /\ \E rendered \in BOOLEAN :
            router' = IF rendered
                      THEN [router EXCEPT
                                !.currentRoute = [route |-> router.invocations[i].route,
                                                  path |-> router.invocations[i].path,
                                                  by |-> i],
                                !.invocations[i].pc = "done",
                                !.invocations[i].outcome = "rendered"]
                      ELSE RenderFailed(router, i)
    /\ RouterFrame

\* the worker is not running; the browser has loaded the document at any of
\* the paths
InitRouter ==
    /\ WorkerInit /\ caches = <<>>
    /\ lazy = LazyLoaderNew
    /\ admin = AdminNew
    /\ router \in {RouterNew(path) : path \in StartPaths}

NextRouter ==
    \/ RouterInit
    \/ Navigate
    \/ Popstate
    \/ Hashchange
    \/ AuthChanges
    \/ CheckAuthSettles
    \/ ExitAnimationDone
    \/ ParentRenderSettles
    \/ RenderSettles

SpecRouter == InitRouter /\ [][NextRouter]_vars

(* ------------------------------ AdminUtils ------------------------------ *)
(* admin.adminStatus is the module variable, with the values the code can   *)
(* give it: false, true, the session data of a response, and the falsy      *)
(* values of `data.success && data.data`.  admin.clock counts the calls of  *)
(* the exported functions; admin.writer names the last assignment.          *)

MaxAdminOps == 3

\* the truthy values of adminStatus
Truthy(status) == status \in {"true", "session"}

\* what response.json() can give: data.success and data.data
SessionBodies ==
    { [success |-> "true", data |-> "session"],
      [success |-> "true", data |-> "null"],
      [success |-> "false", data |-> "session"],
      [success |-> "undefined", data |-> "undefined"] }

\* data.success && data.data
SuccessAndData(data) == IF data.success = "true" THEN data.data ELSE data.success

\* adminStatus = false; return false
IsAdminFails(A, c) ==
    [A EXCEPT !.adminStatus = "false",
              !.writer = [kind |-> "isAdmin", call |-> c],
              !.calls[c].pc = "done", !.calls[c].result = "false",
              !.calls[c].wrote = "false"]

AdminFrame == UNCHANGED <<swVars, lazy, router>>

\* isAdmin() is called: fetch('/api/admin/session', ...) is issued
IsAdminCall ==
    /\ admin.clock < MaxAdminOps
    /\ admin' = [admin EXCEPT
                    !.clock = @ + 1,
                    !.calls = Append(@, [started |-> admin.clock + 1, pc |-> "fetch",
                                         failure |-> "none", result |-> "none",
                                         wrote |-> "none"])]
    /\ AdminFrame

\* await fetch(...) settles: it rejects, or gives a response that is ok or not
IsAdminFetchSettles ==
    /\ \E c \in 1..Len(admin.calls) :
        /\ admin.calls[c].pc = "fetch"
        /\ \E outcome \in {"rejected", "notOk", "ok"} :
            admin' = IF outcome = "ok"
                     THEN [admin EXCEPT !.calls[c].pc = "json"]
                     ELSE IsAdminFails([admin EXCEPT !.calls[c].failure = outcome], c)
    /\ AdminFrame

\* await response.json() settles; adminStatus = data.success && data.data
IsAdminJsonSettles ==
    /\ \E c \in 1..Len(admin.calls) :
        /\ admin.calls[c].pc = "json"
        /\ \/ admin' = IsAdminFails([admin EXCEPT !.calls[c].failure = "json"], c)
           \/ \E data \in SessionBodies :
                admin' = [admin EXCEPT
                            !.adminStatus = SuccessAndData(data),
                            !.writer = [kind |-> "isAdmin", call |-> c],
                            !.calls[c].pc = "done",
                            !.calls[c].result = SuccessAndData(data),
                            !.calls[c].wrote = SuccessAndData(data)]
    /\ AdminFrame

\* getCachedAdminStatus()
GetCachedAdminStatus ==
    /\ admin' = [admin EXCEPT !.read = admin.adminStatus]
    /\ AdminFrame

\* setAdminStatus(status)
SetAdminStatus ==
    /\ admin.clock < MaxAdminOps
    /\ \E status \in {"true", "false"} :
        admin' = [admin EXCEPT !.adminStatus = status,
                               !.clock = @ + 1,
                               !.writer = [kind |-> "set", call |-> 0]]
    /\ AdminFrame

\* clearAdminStatus()
ClearAdminStatus ==
    /\ admin.clock < MaxAdminOps
    /\ admin' = [admin EXCEPT !.adminStatus = "false",
                              !.clock = @ + 1,
                              !.clearedAt = admin.clock + 1,
                              !.writer = [kind |-> "clear", call |-> 0]]
    /\ AdminFrame

\* the worker is not running
InitAdmin == Init /\ caches = <<>>

NextAdmin ==
    \/ IsAdminCall
    \/ IsAdminFetchSettles
    \/ IsAdminJsonSettles
    \/ GetCachedAdminStatus
    \/ SetAdminStatus
    \/ ClearAdminStatus

SpecAdmin == InitAdmin /\ [][NextAdmin]_vars

(* ------------------------------ properties ---------------------------- *)

Event(i) == events[i]
EventIdx == 1..Len(events)

\* no cache of cs holds an entry for href
NoEntry(cs, href) == \A k \in 1..Len(cs) : href \notin DOMAIN cs[k].entries

\* the handler's lookups were all answered (caches.match did not reject)
LookupsAnswered(e) == e.lookup # "failed" /\ e.fallback # "failed"

\* C1: every request the listener answers with respondWith settles, once its
\* fetch has settled and whatever the outcome of the fetch and of the cache
\* write, with one Response and no rejection (cache lookups being answered):
\* the network response, a cached response, the 503 or the offline page.
C1_RespondsWithOneResponse ==
    \A i \in EventIdx :
        LET e == Event(i) IN
        (e.responded /\ LookupsAnswered(e)) =>
            /\ e.settled \in {"pending", "resolved"}
            /\ e.settled = "resolved" <=> e.pc = "done"
            /\ e.settled = "pending" => e.result = Undefined
            /\ e.settled = "resolved" =>
                /\ e.result # Undefined
                /\ \/ e.net # Undefined /\ e.result = e.net
                   \/ e.lookup = "answered" /\ e.result = CachesMatch(e.seenAtLookup, e.req)
                   \/ e.fallback = "answered" /\ e.result = CachesMatch(e.seenAtFallback, e.req)
                   \/ e.result = Offline503
                   \/ e.result = OfflinePage

\* two settled handlers: one whose fetch rejected and found no entry, one
\* whose cache write failed after an ok response
C1_Witness ==
    \E i, j \in EventIdx :
        /\ Event(i).netFailed /\ Event(i).settled = "resolved"
        /\ Event(i).result \in {Offline503, OfflinePage}
        /\ Event(j).writeFailed /\ Event(j).settled = "resolved"
        /\ Event(j).result = Event(j).net

\* install and activation went through without a failure
CleanLifecycle == installError = "none" /\ activateError = "none"

\* C2 (as claimed): when the static store holds an entry for R at the lookup
\* of cacheFirst(R), cacheFirst fetches nothing, writes nothing and returns
\* the response the static store holds for R (stated here for the workers
\* whose install and activation went through without a failure).
C2_StaticHitReturnsStaticEntry ==
    \A i \in EventIdx :
        LET e == Event(i) IN
        (/\ CleanLifecycle
         /\ e.strategy = "cacheFirst"
         /\ e.lookup = "answered"
         /\ Has(e.seenAtLookup, STATIC_CACHE, e.req.url)) =>
            /\ ~e.fetched
            /\ ~e.wrote /\ ~e.writeFailed
            /\ e.settled = "resolved"
            /\ e.result = EntryOf(e.seenAtLookup, STATIC_CACHE, e.req.url)

\* C3 (as claimed): when the fetch of networkFirst(R) fails and the dynamic
\* store holds an entry for R, whatever the other stores hold, networkFirst
\* returns the entry of the dynamic store (stated here for the workers whose
\* install and activation went through without a failure).
C3_FallbackReturnsDynamicEntry ==
    \A i \in EventIdx :
        LET e == Event(i) IN
        (/\ CleanLifecycle
         /\ e.strategy = "networkFirst"
         /\ e.netFailed
         /\ e.fallback = "answered"
         /\ Has(e.seenAtFallback, DYNAMIC_CACHE, e.req.url)) =>
            /\ e.settled = "resolved"
            /\ e.result = EntryOf(e.seenAtFallback, DYNAMIC_CACHE, e.req.url)

\* C4: a document request handled by networkFirst whose fetch failed and for
\* which no cache holds an entry is answered with the synthetic offline page:
\* status 200, Content-Type text/html, not the 503 and not a rejection.
C4_DocumentGetsOfflinePage ==
    \A i \in EventIdx :
        LET e == Event(i) IN
        (/\ e.strategy = "networkFirst"
         /\ e.req.destination = "document"
         /\ e.netFailed
         /\ e.fallback = "answered"
         /\ NoEntry(e.seenAtFallback, e.req.url)) =>
            /\ e.settled = "resolved"
            /\ e.result.status = 200
            /\ e.result.ctype = "text/html"
            /\ e.result.kind = "synthetic"
            /\ e.result.body = "You're Offline"

C4_Witness ==
    \E i \in EventIdx :
        /\ Event(i).strategy = "networkFirst"
        /\ Event(i).req.destination = "document"
        /\ Event(i).netFailed
        /\ Event(i).fallback = "answered"
        /\ NoEntry(Event(i).seenAtFallback, Event(i).req.url)
        /\ Event(i).result = OfflinePage

\* C5: an answered request that is no document request, whose fetch failed
\* and for which no cache holds an entry, gets status 503 and body "Offline",
\* under both strategies; and the synthetic 503 is returned by no handler
\* whose fetch gave a response or whose lookup found an entry.
C5_Offline503OnlyWithoutEntry ==
    \A i \in EventIdx :
        LET e == Event(i) IN
        /\ (/\ e.responded
            /\ e.req.destination # "document"
            /\ e.netFailed
            /\ e.fallback = "answered"
            /\ NoEntry(e.seenAtFallback, e.req.url)) =>
                /\ e.settled = "resolved"
                /\ e.result.status = 503
                /\ e.result.body = "Offline"
        /\ e.result = Offline503 =>
                /\ e.net = Undefined
                /\ e.fallback = "answered"
                /\ NoEntry(e.seenAtFallback, e.req.url)

\* both strategies have returned the 503, and a handler whose fetch failed
\* has returned a cached entry instead
C5_Witness ==
    /\ \E i \in EventIdx :
        Event(i).strategy = "cacheFirst" /\ Event(i).netFailed /\ Event(i).result = Offline503
    /\ \E j \in EventIdx :
        /\ Event(j).strategy = "networkFirst"
        /\ Event(j).netFailed
        /\ \/ Event(j).result = Offline503
           \/ Event(j).result.kind = "network"

NoCacheMarkers == {"_t", "timestamp", "nocache"}

HasMarker(href) == ParseURL(href).params \cap NoCacheMarkers # {}

\* C6: neither the static nor the dynamic store ever holds an entry whose
\* URL has a query parameter _t, timestamp or nocache; an ok response to
\* such a request is returned to the caller and not written.
C6_NoMarkedEntryStored ==
    /\ \A k \in 1..Len(caches) :
        caches[k].name \in {STATIC_CACHE, DYNAMIC_CACHE} =>
            \A href \in DOMAIN caches[k].entries : ~HasMarker(href)
    /\ \A i \in EventIdx :
        LET e == Event(i) IN
        (e.responded /\ HasMarker(e.req.url) /\ e.net # Undefined) =>
            /\ e.pc = "done" /\ e.settled = "resolved" /\ e.result = e.net
            /\ ~e.wrote /\ ~e.writeFailed

\* ok responses to marked requests have been returned by both strategies
C6_Witness ==
    \E i, j \in EventIdx :
        /\ Event(i).strategy = "cacheFirst" /\ Event(j).strategy = "networkFirst"
        /\ \A k \in {i, j} :
            /\ HasMarker(Event(k).req.url)
            /\ Ok(Event(k).net)
            /\ Event(k).result = Event(k).net

LiveNames == {"static-v1", "dynamic-v1", "ggcasecatalogs-v1"}

\* C7: when the activate chain completes without error, the stores deleted
\* are exactly those whose name is none of static-v1, dynamic-v1 and
\* ggcasecatalogs-v1; the stores with a live name are all there with their
\* contents as they were, and no other store is left.
C7_ActivatePurgesExactlyStale ==
    (activatePc = "done" /\ activateError = "none" /\ events = <<>>) =>
        /\ activatePromise = "resolved"
        /\ deleted = Names(atActivate) \ LiveNames
        /\ caches = SelectSeq(atActivate, LAMBDA c : c.name \in LiveNames)
        /\ Names(caches) \subseteq LiveNames

\* an activation that completed without error and deleted a store while
\* keeping another
C7_Witness ==
    /\ activatePc = "done" /\ activateError = "none" /\ events = <<>>
    /\ deleted # {}
    /\ caches # <<>>

\* C8 (as claimed): when opening the static store or fetching a manifest URL
\* fails, the promise given to waitUntil rejects and the install is aborted.
C8_InstallFailureRejects ==
    (installPc = "done" /\ installError # "none") =>
        /\ installPromise = "rejected"
        /\ workerState = "redundant"

\* C9 (as claimed): when caches.keys or a deletion fails during activation,
\* clients.claim is still invoked and the activate promise resolves.
C9_ActivateFailureStillClaims ==
    (activatePc = "done" /\ activateError # "none") =>
        /\ claimed
        /\ activatePromise = "resolved"

\* the three reasons for which the listener is to leave a request alone
ClaimedSkip(request) ==
    LET url == ParseURL(request.url) IN
    \/ ~StartsWith(url.protocol, HttpPrefix)
    \/ url.origin # SelfOrigin /\ ~isApiRequest(url)
    \/ request.method # "GET"

\* C10: for a request whose scheme does not start with http, or whose origin
\* is foreign and whose path matches no API pattern, or whose method is not
\* GET, the listener does not call respondWith, fetches nothing and neither
\* reads nor writes a store; POST /api/products is not intercepted.
C10_SkippedRequestsUntouched ==
    \A i \in EventIdx :
        LET e == Event(i) IN
        ClaimedSkip(e.req) =>
            /\ ~e.responded /\ e.settled = "none" /\ e.pc = "done"
            /\ ~e.fetched /\ e.net = Undefined /\ ~e.netFailed
            /\ e.lookup = "none" /\ e.fallback = "none"
            /\ ~e.wrote /\ ~e.writeFailed

C10_Witness ==
    \E i \in EventIdx :
        /\ Event(i).req = MkReq("/api/products", "POST", "")
        /\ ~Event(i).responded
        /\ Event(i).pc = "done"

\* the classification the listener is to compute
Classify(request) ==
    IF ClaimedSkip(request) THEN "skip"
    ELSE IF request.destination \in {"script", "style", "image"} THEN "cacheFirst"
    ELSE "networkFirst"

\* C11: the strategy the listener chooses depends on the request alone
\* (scheme, origin, path, method, destination), whatever the stores hold:
\* skip for a scheme without http, a foreign origin without an API path and
\* a method other than GET; else cacheFirst exactly for the destinations
\* script, style and image, and networkFirst for every other GET, each
\* eligible GET getting its respondWith.
C11_StrategyIsClassify ==
    \A i \in EventIdx :
        LET e == Event(i) IN
        /\ e.strategy = Classify(e.req)
        /\ e.responded <=> Classify(e.req) # "skip"

\* a foreign API request with another destination went to networkFirst and
\* a style request to cacheFirst
C11_Witness ==
    \E i \in EventIdx :
        \/ /\ Event(i).req = MkReq("https://cdn.example/api/brands/1.png", "GET", "font")
           /\ Event(i).strategy = "networkFirst"
           /\ Event(i).pc = "done"
        \/ /\ Event(i).req = MkReq("/app.js", "GET", "style")
           /\ Event(i).strategy = "cacheFirst"
           /\ Event(i).pc = "done"

\* the store a strategy writes into
TargetOf(e) == IF e.strategy = "cacheFirst" THEN "static-v1" ELSE "dynamic-v1"

\* event i completes its cache.put in this step
PutStep(i) == i <= Len(events) /\ ~events[i].wrote /\ events'[i].wrote

\* C12: a put that succeeds, after a miss and an ok response to a
\* write-eligible request, leaves the network response under the request's
\* key in the static store (cacheFirst) or the dynamic store (networkFirst),
\* leaves every other store as it was, and the handler returns the network
\* response.
C12_WriteGoesToOwnStore ==
    [][\A i \in EventIds :
        PutStep(i) =>
            LET e == events'[i] IN
            /\ Ok(e.net) /\ isCacheableRequest(e.req)
            /\ e.strategy = "cacheFirst" =>
                    e.lookup = "answered" /\ NoEntry(e.seenAtLookup, e.req.url)
            /\ e.settled = "resolved" /\ e.result = e.net
            /\ EntryOf(caches', TargetOf(e), e.req.url) = e.net
            /\ SelectSeq(caches', LAMBDA c : c.name # TargetOf(e))
                    = SelectSeq(caches, LAMBDA c : c.name # TargetOf(e))]_vars

\* both strategies have written, each into its store
C12_Witness ==
    \E i, j \in EventIdx :
        /\ Event(i).strategy = "cacheFirst" /\ Event(i).wrote
        /\ EntryOf(caches, STATIC_CACHE, Event(i).req.url) = Event(i).net
        /\ Event(j).strategy = "networkFirst" /\ Event(j).wrote
        /\ EntryOf(caches, DYNAMIC_CACHE, Event(j).req.url) = Event(j).net

\* C13: a network response that is not ok is returned as it is, with no
\* write attempted; what the strategies write are ok responses, so the
\* static and the dynamic store hold ok responses only.
C13_OnlyOkResponsesWritten ==
    /\ \A i \in EventIdx :
        LET e == Event(i) IN
        /\ (e.net # Undefined /\ ~Ok(e.net)) =>
                /\ e.pc = "done" /\ e.settled = "resolved" /\ e.result = e.net
                /\ ~e.wrote /\ ~e.writeFailed
        /\ (e.wrote \/ e.writeFailed \/ e.pc \in {"cf_open", "cf_put", "nf_open", "nf_put"})
                => Ok(e.net)
    /\ \A k \in 1..Len(caches) :
        caches[k].name \in {STATIC_CACHE, DYNAMIC_CACHE} =>
            \A href \in DOMAIN caches[k].entries : Ok(caches[k].entries[href])

\* both strategies have returned a response that is not ok
C13_Witness ==
    \E i, j \in EventIdx :
        /\ Event(i).strategy = "cacheFirst" /\ Event(j).strategy = "networkFirst"
        /\ \A k \in {i, j} :
            /\ Event(k).net = NetError
            /\ Event(k).result = NetError
            /\ isCacheableRequest(Event(k).req)

\* event i sees its caches.open or cache.put fail in this step
WriteFailStep(i) == i <= Len(events) /\ ~events[i].writeFailed /\ events'[i].writeFailed

\* C14: when caches.open or cache.put fails after a fetch that gave a
\* response, the handler still returns that network response (no 503, no
\* cached response, no rejection) and the failed write changes no store.
C14_WriteFailureSwallowed ==
    [][\A i \in EventIds :
        WriteFailStep(i) =>
            LET e == events'[i] IN
            /\ e.settled = "resolved"
            /\ e.net.kind = "network"
            /\ e.result = e.net
            /\ e.fallback = "none"
            /\ caches' = caches]_vars

\* under both strategies a write has failed and the network response was
\* returned
C14_Witness ==
    \E i, j \in EventIdx :
        /\ Event(i).strategy = "cacheFirst" /\ Event(j).strategy = "networkFirst"
        /\ \A k \in {i, j} :
            /\ Event(k).writeFailed
            /\ Event(k).settled = "resolved"
            /\ Event(k).result = Event(k).net

\* C15 (as claimed): also when a caches.match call fails, in the first
\* lookup of cacheFirst or in the lookup of a catch block, the caller gets a
\* Response: no promise given to respondWith rejects.
C15_LookupFailureAbsorbed ==
    \A i \in EventIdx :
        LET e == Event(i) IN
        (CleanLifecycle /\ e.responded) =>
            /\ e.settled # "rejected"
            /\ e.pc = "done" => e.result # Undefined

\* C16 (as claimed): cacheFirst returns a cached response, at its first
\* lookup or in its catch block, only when the static store holds an entry
\* for the request; an entry held by another store alone is no hit.
C16_CacheFirstHitsStaticOnly ==
    \A i \in EventIdx :
        LET e == Event(i) IN
        (CleanLifecycle /\ e.strategy = "cacheFirst" /\ e.settled = "resolved") =>
            /\ (e.lookup = "answered" /\ ~e.fetched) =>
                    Has(e.seenAtLookup, STATIC_CACHE, e.req.url)
            /\ (e.fallback = "answered" /\ e.result # Offline503) =>
                    Has(e.seenAtFallback, STATIC_CACHE, e.req.url)

\* C17: networkFirst calls fetch before any lookup, and looks into the
\* caches only when fetch rejected: whatever response fetch gives, ok or
\* not, is the one returned, also when a cache holds an entry.
C17_NetworkFirstPrefersNetwork ==
    \A i \in EventIdx :
        LET e == Event(i) IN
        e.strategy = "networkFirst" =>
            /\ e.fetched
            /\ e.lookup = "none"
            /\ e.fallback # "none" => (e.netFailed /\ e.net = Undefined)
            /\ e.net # Undefined =>
                /\ ~e.netFailed
                /\ e.pc \in {"nf_open", "nf_put", "done"}
                /\ e.pc = "done" => (e.settled = "resolved" /\ e.result = e.net)

\* a 500 was returned for a request a cache holds an entry for
C17_Witness ==
    \E i \in EventIdx :
        /\ Event(i).strategy = "networkFirst"
        /\ Event(i).net = NetError
        /\ Event(i).result = NetError
        /\ ~NoEntry(caches, Event(i).req.url)

\* C18: clients.claim is invoked only once caches.keys has answered and
\* every deletion it led to has succeeded: when the worker claims, none of
\* the stores with a name that is not live, there when activation began,
\* is left.
C18_ClaimAfterPurge ==
    claimed =>
        /\ activateError = "none"
        /\ pendingDeletes = {}
        /\ deleted = Names(atActivate) \ LiveNames
        /\ Names(caches) \cap (Names(atActivate) \ LiveNames) = {}

\* the worker has claimed after deleting a store
C18_Witness == claimed /\ deleted # {}

\* C19: when cacheFirst missed at its first lookup and its fetch then
\* rejected, the lookup of the catch block returns an entry a cache holds
\* for the request by then (written meanwhile by another handler), and the
\* 503 only when no cache holds one.
C19_SecondLookupSeesLaterWrite ==
    \A i \in EventIdx :
        LET e == Event(i) IN
        (/\ e.strategy = "cacheFirst"
         /\ e.lookup = "answered"
         /\ e.netFailed
         /\ e.fallback = "answered") =>
            /\ NoEntry(e.seenAtLookup, e.req.url)
            /\ e.settled = "resolved"
            /\ IF NoEntry(e.seenAtFallback, e.req.url)
               THEN e.result = Offline503
               ELSE \E k \in 1..Len(e.seenAtFallback) :
                        /\ e.req.url \in DOMAIN e.seenAtFallback[k].entries
                        /\ e.result = e.seenAtFallback[k].entries[e.req.url]

\* a handler that missed, lost its fetch, and found the entry another
\* handler had written in between
C19_Witness ==
    \E i \in EventIdx :
        /\ Event(i).strategy = "cacheFirst"
        /\ Event(i).lookup = "answered"
        /\ NoEntry(Event(i).seenAtLookup, Event(i).req.url)
        /\ Event(i).netFailed
        /\ Event(i).fallback = "answered"
        /\ ~NoEntry(Event(i).seenAtFallback, Event(i).req.url)
        /\ Event(i).result.kind = "network"

\* the keys of the cache named n
KeysOf(cs, n) == IF n \in Names(cs) THEN DOMAIN cs[IndexOf(cs, n)].entries ELSE {}

\* C20: when two handlers of the same strategy write under the same key,
\* each put replaces the entry as a whole: after the later put the target
\* store holds, under that key, the response of the later put and nothing
\* of the earlier one, it has no key more or less, and its entries under
\* the other keys are as they were.
C20_LastPutWins ==
    [][\A i, j \in EventIds :
        (/\ i # j
         /\ j <= Len(events)
         /\ PutStep(i)
         /\ events[j].wrote
         /\ events[j].strategy = events[i].strategy
         /\ events[j].req.url = events[i].req.url) =>
            LET e == events'[i]
                t == TargetOf(e)
            IN /\ EntryOf(caches', t, e.req.url) = e.net
               /\ KeysOf(caches', t) = KeysOf(caches, t)
               /\ \A h \in KeysOf(caches, t) \ {e.req.url} :
                    EntryOf(caches', t, h) = EntryOf(caches, t, h)]_vars

\* two handlers of one strategy wrote different responses under one key,
\* and the store holds one of them
C20_Witness ==
    \E i, j \in EventIdx :
        /\ i # j
        /\ Event(i).wrote /\ Event(j).wrote
        /\ Event(i).strategy = Event(j).strategy
        /\ Event(i).req.url = Event(j).req.url
        /\ Event(i).net # Event(j).net
        /\ EntryOf(caches, TargetOf(Event(i)), Event(i).req.url) = Event(j).net

\* every URL of the manifest has an entry in the static store
ManifestStored(cs) ==
    \A k \in 1..Len(STATIC_ASSETS) : Has(cs, STATIC_CACHE, STATIC_ASSETS[k])

\* C21: when the install chain went through, the static store holds an
\* entry for each of '/', '/manifest.json' and '/favicon.ico';
\* self.skipWaiting is invoked only once all of them are written, and never
\* when caches.open or cache.addAll failed.
C21_SkipWaitingAfterPopulation ==
    /\ (installPc = "done" /\ installError = "none") =>
            (ManifestStored(caches) /\ skipWaitingCalled)
    /\ installPc = "skipWaiting" => ManifestStored(caches)
    /\ skipWaitingCalled => (ManifestStored(caches) /\ installError = "none")
    /\ installError # "none" => ~skipWaitingCalled

\* an install over the static store of an earlier version went through
C21_Witness ==
    /\ skipWaitingCalled
    /\ installPc = "done"
    /\ ManifestStored(caches)
    /\ \E k \in 1..Len(atActivate) : atActivate[k].name = STATIC_CACHE

\* the entries of the static store (none when there is no such store)
StaticEntries(cs) ==
    IF STATIC_CACHE \in Names(cs) THEN cs[IndexOf(cs, STATIC_CACHE)].entries ELSE NoEntries

\* C22: once the install chain is over, the entries of the static store
\* change only in a step in which a cacheFirst handler completes its
\* cache.put: no step of networkFirst, of the activation, of a skipped
\* request or of a sync event adds, replaces or removes one.
C22_StaticChangedByCacheFirstOnly ==
    [][(installPc = "done" /\ StaticEntries(caches') # StaticEntries(caches)) =>
            \E i \in EventIds :
                /\ PutStep(i)
                /\ events'[i].strategy = "cacheFirst"
                /\ StaticEntries(caches') =
                        [h \in DOMAIN StaticEntries(caches) \cup {events'[i].req.url} |->
                            IF h = events'[i].req.url THEN events'[i].net
                            ELSE StaticEntries(caches)[h]]]_vars

\* the manifest is stored, the activation has deleted a store, networkFirst
\* has written the document '/' and cacheFirst a key of its own
C22_Witness ==
    /\ ManifestStored(caches)
    /\ deleted # {}
    /\ \E i, j \in EventIdx :
        /\ Event(i).strategy = "networkFirst" /\ Event(i).wrote /\ Event(i).req.url = "/"
        /\ Event(j).strategy = "cacheFirst" /\ Event(j).wrote
        /\ StaticEntries(caches)["/"] = NetOk(1)

C24_StoresDisjoint ==
    CleanLifecycle =>
        \A h \in Hrefs : ~(Has(caches, STATIC_CACHE, h) /\ Has(caches, DYNAMIC_CACHE, h))

\* the caches of cs that hold an entry for href
Holders(cs, href) == {k \in 1..Len(cs) : href \in DOMAIN cs[k].entries}

\* C24 (amended): a key can have an entry in the static store and in the
\* dynamic store at once ('/' is written at install and again by
\* networkFirst for the document), but only as the entry of each side's own
\* writer: a static entry comes from install, an earlier version or a
\* cacheFirst write, a dynamic entry from an earlier version or a
\* networkFirst write; a fallback lookup for such a key returns one stored
\* response, that of the cache created first.
C24_OverlapOnlyByOwnWriters ==
    /\ \A h \in DOMAIN StaticEntries(caches) :
        \/ \E k \in 1..Len(STATIC_ASSETS) : STATIC_ASSETS[k] = h
        \/ StaticEntries(caches)[h] = NetOk(0)
        \/ \E i \in EventIdx : /\ Event(i).strategy = "cacheFirst"
                               /\ Event(i).wrote
                               /\ Event(i).req.url = h
    /\ \A h \in KeysOf(caches, DYNAMIC_CACHE) :
        \/ EntryOf(caches, DYNAMIC_CACHE, h) = NetOk(0)
        \/ \E i \in EventIdx : /\ Event(i).strategy = "networkFirst"
                               /\ Event(i).wrote
                               /\ Event(i).req.url = h
    /\ \A i \in EventIdx :
        LET e == Event(i)
            holders == Holders(e.seenAtFallback, e.req.url)
        IN (e.fallback = "answered" /\ holders # {}) =>
            LET first == CHOOSE k \in holders : \A j \in holders : k <= j
            IN e.result = e.seenAtFallback[first].entries[e.req.url]

\* '/' is in both stores, and the fallback lookup of a handler found two
\* entries for its key
C24_Witness ==
    /\ Has(caches, STATIC_CACHE, "/") /\ Has(caches, DYNAMIC_CACHE, "/")
    /\ \E i \in EventIdx :
        /\ Event(i).fallback = "answered"
        /\ Cardinality(Holders(Event(i).seenAtFallback, Event(i).req.url)) = 2

\* the loading promises of L made for key
LoadsOf(L, key) == {p \in 1..Len(L.promises) : L.promises[p].key = key}

\* the calls of Lb that La has not
NewCalls(La, Lb) == (Len(La.calls) + 1)..Len(Lb.calls)

\* the call invoked importFn
Imported(call) == call.how \in {"started", "threw"}

\* C25: loadComponent deduplicates per key. importFn is invoked only when
\* the key is not cached and no load of the key is in flight, so the loads
\* of a key follow one another, each but the last a failed one, and none
\* follows a load that succeeded; every caller that gets a component for a
\* key, from the load it started or joined or from the cache, gets the same
\* one.
C25_LoadsDeduplicated ==
    [][/\ \A n \in NewCalls(lazy, lazy') :
            LET call == lazy'.calls[n] IN
            Imported(call) =>
                /\ call.key \notin DOMAIN lazy.cache
                /\ \A p \in LoadsOf(lazy, call.key) : lazy.promises[p].state = "rejected"
                /\ \A m \in NewCalls(lazy, lazy') :
                        (m < n /\ lazy'.calls[m].key = call.key) => lazy'.calls[m].how = "threw"
       /\ \A p, q \in 1..Len(lazy'.promises) :
            (p < q /\ lazy'.promises[p].key = lazy'.promises[q].key) =>
                lazy'.promises[p].state = "rejected"
       /\ \A n \in 1..Len(lazy'.calls) :
            LET call == lazy'.calls[n] IN
            /\ call.how = "cached" =>
                    (call.key \in DOMAIN lazy'.cache /\ lazy'.cache[call.key] = call.value)
            /\ (call.promise # 0 /\ lazy'.promises[call.promise].state = "fulfilled") =>
                    /\ call.key \in DOMAIN lazy'.cache
                    /\ lazy'.cache[call.key] = lazy'.promises[call.promise].value]_vars

\* one load served the caller that started it, a caller that joined it and,
\* from the cache, a caller that came after it
C25_Witness ==
    \E a, b, c \in 1..Len(lazy.calls) :
        /\ lazy.calls[a].how = "started"
        /\ lazy.calls[b].how = "joined"
        /\ lazy.calls[b].promise = lazy.calls[a].promise
        /\ lazy.promises[lazy.calls[a].promise].state = "fulfilled"
        /\ lazy.calls[c].how = "cached"
        /\ lazy.calls[c].key = lazy.calls[a].key

\* C26: when importFn's promise rejects, the loading promise rejects (for
\* every caller that holds it), the component cache is left as it was and
\* the key leaves loadingPromises, so the next loadComponent call for the
\* key invokes importFn again. loadingPromises holds pending loads only:
\* it is empty once every load has settled, and it never shares a key with
\* the cache.
C26_FailedLoadCleansUp ==
    [][/\ \A p \in 1..Len(lazy.promises) :
            (lazy.promises[p].state = "pending" /\ lazy'.promises[p].state = "rejected") =>
                /\ lazy'.cache = lazy.cache
                /\ lazy.promises[p].key \notin DOMAIN lazy'.loadingPromises
       /\ \A n \in NewCalls(lazy, lazy') :
            LET call == lazy'.calls[n] IN
            (/\ n = Len(lazy.calls) + 1
             /\ call.key \notin DOMAIN lazy.cache
             /\ LoadsOf(lazy, call.key) # {}
             /\ \A p \in LoadsOf(lazy, call.key) : lazy.promises[p].state = "rejected")
                => Imported(call)
       /\ \A key \in DOMAIN lazy'.loadingPromises :
            /\ lazy'.promises[lazy'.loadingPromises[key]].state = "pending"
            /\ lazy'.promises[lazy'.loadingPromises[key]].key = key
            /\ key \notin DOMAIN lazy'.cache
       /\ \A key \in DOMAIN lazy'.cache :
            \E p \in LoadsOf(lazy', key) :
                /\ lazy'.promises[p].state = "fulfilled"
                /\ lazy'.promises[p].value = lazy'.cache[key]
       /\ (\A p \in 1..Len(lazy'.promises) : lazy'.promises[p].state # "pending")
            => lazy'.loadingPromises = <<>>]_vars

\* a load that two callers waited on failed, one of them a preload, and a
\* later call for the key invoked importFn again
C26_Witness ==
    \E a, b, c \in 1..Len(lazy.calls) :
        /\ lazy.calls[a].how = "started"
        /\ lazy.calls[b].how = "joined"
        /\ lazy.calls[b].promise = lazy.calls[a].promise
        /\ lazy.calls[a].swallowed # lazy.calls[b].swallowed
        /\ lazy.promises[lazy.calls[a].promise].state = "rejected"
        /\ lazy.promises[lazy.calls[a].promise].import = "rejected"
        /\ c > b
        /\ lazy.calls[c].key = lazy.calls[a].key
        /\ lazy.calls[c].how = "started"
        /\ lazy.calls[a].key \notin DOMAIN lazy.cache

InvIdx == 1..Len(router.invocations)
Inv(i) == router.invocations[i]

\* C27: handleRoute calls renderRoute for a route with requiresAuth, which
\* every path with the prefix '/admin' resolves to, only when checkAuth
\* answered true in that invocation; when it answered false the router
\* navigates to '/login' and renders nothing for the protected path.
C27_ProtectedRoutesNeedAuth ==
    /\ \A i \in InvIdx :
        /\ StartsWith(Chars(Inv(i).path), Chars("/admin")) => Inv(i).route.requiresAuth
        /\ (Inv(i).renderCalled /\ Inv(i).route.requiresAuth) => Inv(i).auth = "true"
        /\ (Inv(i).route.requiresAuth /\ Inv(i).auth = "false") =>
                /\ Inv(i).redirect = "/login"
                /\ ~Inv(i).renderCalled
                /\ Inv(i).outcome = "none"
    /\ router.currentRoute.route.requiresAuth => Inv(router.currentRoute.by).auth = "true"

\* a path under '/admin' that is no route was refused and the login page
\* rendered in its place
C27_Witness ==
    \E i, j \in InvIdx :
        /\ Inv(i).path = "/admin/reports"
        /\ Inv(i).auth = "false"
        /\ Inv(i).redirect = "/login"
        /\ j > i /\ Inv(j).nav = Inv(i).nav
        /\ Inv(j).path = "/login"
        /\ Inv(j).outcome = "rendered"

\* C28: as long as checkAuth gives the same answer along a navigation, its
\* chain of redirects (a path with no route to '/', a protected route to
\* '/login', '/login' to '/admin/dashboard', '/admin' to its default child)
\* has at most two redirects and ends in a call of renderRoute.
C28_RedirectsTerminate ==
    \A i \in InvIdx :
        Cardinality(Inv(i).chainAuth) <= 1 =>
            /\ Inv(i).depth <= 2
            /\ (Inv(i).pc = "done" /\ Inv(i).redirect = "none") => Inv(i).renderCalled
            /\ Inv(i).auth \in {"true", "false"} =>
                    (Inv(i).renderCalled \/ Inv(i).redirect # "none")
            /\ Inv(i).redirect # "none" =>
                    \E j \in InvIdx :
                        /\ j > i
                        /\ Inv(j).nav = Inv(i).nav
                        /\ Inv(j).depth = Inv(i).depth + 1
                        /\ Inv(j).path = Inv(i).redirect

\* a redirect taken under a constant answer (from a path with no route, or
\* from '/admin') was followed by a render
C28_Witness ==
    \E i, j \in InvIdx :
        /\ Inv(i).path \in {"/cart", "/admin"}
        /\ Inv(i).redirect # "none"
        /\ Inv(j).nav = Inv(i).nav
        /\ Inv(j).depth = 1
        /\ Cardinality(Inv(j).chainAuth) = 1
        /\ Inv(j).renderCalled
        /\ Inv(j).outcome = "rendered"

\* C29 (as claimed): when handleRoute invocations overlapped and all of them
\* are over, currentRoute and the content of the container are those of the
\* most recent navigation (stated for the runs in which checkAuth answered
\* and no render failed).
C29_LatestNavigationWins ==
    \A i \in InvIdx :
        (/\ ~router.unloaded
         /\ \A j \in InvIdx : Inv(j).pc = "done" /\ Inv(j).outcome # "error"
         /\ Inv(i).nav = router.navs
         /\ Inv(i).outcome = "rendered") =>
            /\ router.currentRoute.path = Inv(i).path
            /\ router.child \in InvIdx
            /\ Inv(router.child).path = Inv(i).path

\* C30 (as claimed): once clearAdminStatus has run, the cached status is
\* truthy only through a setAdminStatus call after it or through an isAdmin
\* call started after it, never through an isAdmin call that was in flight;
\* and isAdmin sets the status to false and returns false whenever the
\* session request fails, is not ok, or its body cannot be read.
C30_ClearNotUndoneByStaleCheck ==
    /\ (admin.clearedAt > 0 /\ Truthy(admin.adminStatus)) =>
            \/ admin.writer.kind = "set"
            \/ /\ admin.writer.kind = "isAdmin"
               /\ admin.calls[admin.writer.call].started > admin.clearedAt
    /\ \A c \in 1..Len(admin.calls) :
            (admin.calls[c].pc = "done" /\ admin.calls[c].failure # "none") =>
                (admin.calls[c].result = "false" /\ admin.calls[c].wrote = "false")

====
